---- MODULE Spec2Model ----
(***************************************************************************)
(* causalimpact/main.py: the CausalImpact analysis request.                *)
(*                                                                         *)
(* Two specifications:                                                     *)
(*   SpecValidate  one call of one of the validation methods of            *)
(*                 CausalImpact on arguments drawn from bounded sets;      *)
(*   Spec          the statements of CausalImpact.__init__ that follow     *)
(*                 _check_input_data (lines 150-154): BaseCausal.__init__, *)
(*                 the model_args and model setters, model.train() and     *)
(*                 _process_posterior_inferences.                          *)
(*                                                                         *)
(* Python values are written as records of a fixed shape so that any two   *)
(* of them can be compared: an object is [k |-> its kind, v |-> a number], *)
(* an optional value is a sequence of length 0 or 1.  Python indexes from  *)
(* 0 and TLA+ sequences from 1: period[0] is elems[1], column 0 is         *)
(* cols[1].  The backquotes of the messages are written as quotes.         *)
(***************************************************************************)
EXTENDS Integers, Sequences, FiniteSets, TLC

VARIABLES
    ucm,            \* is the name UnobservedComponentsModel bound in the module
    call,           \* SpecValidate: the method called and its arguments
    result,         \* SpecValidate: <<>> before the call, <<outcome>> after
    pc,             \* Spec: the statement of __init__ to run next
    checked_input,  \* Spec: the dictionary _check_input_data returned
    pre_data,       \* self.pre_data
    post_data,      \* self.post_data
    alpha,          \* self.alpha
    mu_sig,         \* self.mu_sig
    model_args,     \* self._model_args
    model,          \* self._model
    trained_model,  \* self.trained_model
    std_calls,      \* history: the calls of standardize(), in order
    error           \* the exception that ended the request, if any

vars == <<ucm, call, result, pc, checked_input, pre_data, post_data, alpha,
          mu_sig, model_args, model, trained_model, std_calls, error>>

session_vars == <<pc, checked_input, pre_data, post_data, alpha, mu_sig,
                  model_args, model, trained_model, std_calls, error>>

-----------------------------------------------------------------------------
(* Bounds of the model.                                                    *)

\* integer offsets of a period range over -1 .. MaxOffset
MaxOffset == 6
\* date labels of a period: 0 is the empty string, 1 .. MaxLabel are dates
MaxLabel == 2
\* float alphas range over (-AlphaSpan .. 100 + AlphaSpan) / 100
AlphaSpan == 50
\* an observation matrix has 2 .. MaxRows rows
MaxRows == 3
\* and 1 .. MaxCols columns (column 0 the response, the rest covariates)
MaxCols == 2

-----------------------------------------------------------------------------
(* Outcomes of a call: a returned value or a raised exception.             *)

Ok(v) == [exc |-> "", msg |-> "", val |-> <<v>>]

Raise(e, m) == [exc |-> e, msg |-> m, val |-> <<>>]

Raised(r) == r.exc # ""

None == [k |-> "none", v |-> 0]

\* bool(x) of a period element: None, 0, 0.0 and '' are false
IsTruthy(e) == IF e.k = "none" THEN FALSE ELSE e.v # 0

-----------------------------------------------------------------------------
(* _process_alpha, lines 262-284.  alpha is [k, v]: kind "none", "int",    *)
(* "float" or "nan" (the float NaN) and v the value in hundredths.         *)

\* alpha < 0, False for NaN
AlphaLess(a, n) == a.k # "nan" /\ a.v < n

\* alpha > 1, False for NaN
AlphaGreater(a, n) == a.k # "nan" /\ a.v > n

_process_alpha_strict(a) ==
    IF ~(a.k \in {"float", "nan"})
    THEN Raise("ValueError", "'alpha' must be of type 'float'.")
    ELSE IF ~(AlphaGreater(a, 0) /\ AlphaLess(a, 100))
    THEN Raise("ValueError",
               "'alpha' must range between 0 (zero) and 1 (one) inclusive.")
    ELSE Ok(None)

_process_alpha(a) ==
    IF ~(a.k \in {"float", "nan"})
    THEN Raise("ValueError", "'alpha' must be of type 'float'.")
    ELSE IF AlphaLess(a, 0) \/ AlphaGreater(a, 100)
    THEN Raise("ValueError",
               "'alpha' must range between 0 (zero) and 1 (one) inclusive.")
    ELSE Ok(None)

-----------------------------------------------------------------------------
(* _process_input_model, lines 286-323.  A model is [t, level, exog,       *)
(* data]: t is "none" (no model), "UCM" (an UnobservedComponentsModel) or  *)
(* "other"; each attribute is "absent" (reading it raises AttributeError), *)
(* "unset" (a false value) or "set".  main.py never imports the name       *)
(* UnobservedComponentsModel: with the name unbound (bound = FALSE) the    *)
(* isinstance test of line 304 raises NameError.                           *)

NameErrorUCM == Raise("NameError", "name 'UnobservedComponentsModel' is not defined")

_process_input_model(m, bound) ==
    IF ~bound THEN NameErrorUCM
    ELSE IF m.t # "UCM"
    THEN Raise("ValueError",
               "Input 'model' must be of type 'UnobservedComponentsModel'")
    ELSE IF m.level = "absent"
    THEN Raise("ValueError", "Model must have attribute level")
    ELSE IF m.level = "unset"
    THEN Raise("ValueError", "Model must have 'level' attribute set.")
    ELSE IF m.exog = "absent"
    THEN Raise("ValueError", "Model must have attribute exog")
    ELSE IF m.exog = "unset"
    THEN Raise("ValueError", "Model must have 'exog' attribute set.")
    ELSE IF m.data = "absent"
    THEN Raise("ValueError", "Model must have attribute exog")
    ELSE IF m.data = "unset"
    THEN Raise("ValueError", "Model must have 'data' attribute set.")
    ELSE Ok(m)

-----------------------------------------------------------------------------
(* _process_kwargs, lines 325-349.  kwargs is the value of its             *)
(* 'standardize' key: "absent", "none", "true", "false" or "other" (not a  *)
(* bool).  ValueException is not a name of Python: raising it is a         *)
(* NameError.                                                              *)

_process_kwargs(kwargs) ==
    LET standardize_ == IF kwargs \in {"absent", "none"} THEN "false" ELSE kwargs
    IN  IF ~(standardize_ \in {"true", "false"})
        THEN Raise("NameError", "name 'ValueException' is not defined")
        ELSE Ok([standardize |-> (standardize_ = "true")])

-----------------------------------------------------------------------------
(* _format_input_data, lines 351-387.  data is [t, index, cols]: t is      *)
(* "DataFrame", "array" (converts to a DataFrame), "ragged" (pd.DataFrame  *)
(* raises ValueError) or "none" (None, which pd.DataFrame turns into an    *)
(* empty frame); cols is the sequence of columns, each a sequence of cells *)
(* "num", "nan" (a missing number) or "str".                               *)

MinPoints == 3

\* data.shape[0]
NRows(data) == IF data.cols = <<>> THEN 0 ELSE Len(data.cols[1])

\* data.shape[1]
NCols(data) == Len(data.cols)

\* data.applymap(np.isreal).values.all(): NaN is a real number, a str is not
AllReal(data) ==
    \A c \in 1..NCols(data) : \A r \in 1..NRows(data) : data.cols[c][r] # "str"

\* data.isna().values.all()
AllNa(data) ==
    \A c \in 1..NCols(data) : \A r \in 1..NRows(data) : data.cols[c][r] = "nan"

_format_input_data(data) ==
    IF data.t = "ragged"
    THEN Raise("ValueError", "Input 'data' is not valid. Cause of error: {err}")
    ELSE LET df == [data EXCEPT !.t = "DataFrame"]
         IN  IF ~AllReal(df)
             THEN Raise("ValueError", "Input 'data' must contain only numeric values")
             ELSE IF NRows(df) < MinPoints
             THEN Raise("ValueError", "Input data must have more than 3 points")
             ELSE IF NCols(df) > 1 /\ AllNa(df)
             THEN Raise("ValueError", "Input data cannot have NAN values")
             ELSE Ok(df)

-----------------------------------------------------------------------------
(* _process_period, lines 426-471.  period is [t, elems]: t is "list",     *)
(* "tuple" or "none"; an element is [k, v] of kind "none", "int", "float"  *)
(* or "str" (v the label's number, 0 the empty string).                    *)

MinSpan == 3

_process_period(period, data_index) ==
    IF period.t # "list"
    THEN Raise("ValueError", "Input 'period' must be of type 'list'.")
    ELSE IF Len(period.elems) # 2
    THEN Raise("ValueError", "'period' must have two values regarding the beginning and end of the pre and post intervention data")
    ELSE LET p == period.elems
             none_args == SelectSeq(p, IsTruthy)
         IN  IF none_args # <<>>
             THEN Raise("ValueError", "Input period cannot have 'None' values")
             ELSE IF ~(   (p[1].k = "int" /\ p[2].k = "int")
                       \/ (p[2].k = "str" /\ p[2].k = "str"))
             THEN Raise("ValueError", "Input must contain either 'int' or 'str'")
             ELSE IF p[1].k = "str"
             THEN IF data_index = "DatetimeIndex"
                  \* line 463 reads the name data, which _process_period
                  \* does not bind
                  THEN Raise("NameError", "name 'data' is not defined")
                  ELSE Raise("ValueError", "If input 'period' is string then input 'data' must have index of type 'DatetimeIndex'.")
             ELSE IF p[2].k # "int"
             \* period[1] - period[0] with a str and an int or None
             THEN Raise("TypeError", "unsupported operand type(s) for -")
             ELSE IF p[2].v - p[1].v < MinSpan
             THEN Raise("ValueError", "'pre_period' must span at least 3 time points")
             ELSE Ok(period)

-----------------------------------------------------------------------------
(* _process_pre_post_data, lines 389-424.  data is a DataFrame here: its   *)
(* iloc takes at most two indexers, so the three of lines 421-422 raise    *)
(* pandas' IndexingError.  (Line 419 is read as the raise it spells.)      *)

_process_pre_post_data(data, pre_period, post_period) ==
    LET pre == _process_period(pre_period, data.index)
        post == _process_period(post_period, data.index)
    IN  IF Raised(pre) THEN pre
        ELSE IF Raised(post) THEN post
        ELSE LET a == pre.val[1].elems
                 b == post.val[1].elems
             IN  IF a[2].v > b[1].v
                 THEN Raise("ValueError", "Values in training data cannot be present in the post-intervention data. Please fix your pre_period value to cover at most one point less from when the intervention happened.")
                 ELSE IF b[2].v < b[1].v
                 THEN Raise("ValueError", "'post_period' last number must be bigger than its first.")
                 ELSE IF a[2].v < a[1].v
                 THEN Raise("ValueError", "'pre_period' last number must be bigger than its first")
                 ELSE Raise("IndexingError", "Too many indexers")

-----------------------------------------------------------------------------
(* _check_input_data, lines 211-260.  Lines 248 and 250 call methods that  *)
(* neither CausalImpact nor BaseCausal defines.                            *)

_process_causal_kwargs(kwargs) ==
    Raise("AttributeError", "'CausalImpact' object has no attribute '_process_causal_kwargs'")

_process_causal_input_model(m) ==
    Raise("AttributeError", "'CausalImpact' object has no attribute '_process_causal_input_model'")

_check_input_data(req) ==
    LET none_args == {arg \in {"data", "pre_period", "post_period", "alpha"} :
                         \/ arg = "data" /\ req.data.t = "none"
                         \/ arg = "pre_period" /\ req.pre_period.t = "none"
                         \/ arg = "post_period" /\ req.post_period.t = "none"
                         \/ arg = "alpha" /\ req.alpha.k = "none"}
        processed_data == _format_input_data(req.data)
        split == _process_pre_post_data(processed_data.val[1], req.pre_period,
                                        req.post_period)
        margs == _process_causal_kwargs(req.kwargs)
        mdl == IF req.model.t # "none"
                 THEN _process_causal_input_model(req.model)
                 ELSE Ok(req.model)
    IN  IF none_args # {} THEN Raise("ValueError", "{args} cannot be empty")
        ELSE IF Raised(processed_data) THEN processed_data
        ELSE IF Raised(split) THEN split
        ELSE IF Raised(margs) THEN margs
        ELSE IF Raised(mdl) THEN mdl
        ELSE Ok([data |-> req.data,
                 pre_period |-> req.pre_period,
                 post_period |-> req.post_period,
                 pre_data |-> split.val[1][1],
                 post_data |-> split.val[1][2],
                 model |-> mdl.val[1],
                 alpha |-> req.alpha,
                 model_args |-> margs.val[1]])

-----------------------------------------------------------------------------
(* The arguments the calls are drawn from.                                 *)

Offsets == -1..MaxOffset

PyInt(n) == [k |-> "int", v |-> n]

PyStr(n) == [k |-> "str", v |-> n]

Elems ==
    {None} \cup {PyInt(n) : n \in Offsets} \cup {PyStr(n) : n \in 0..MaxLabel}
           \cup {[k |-> "float", v |-> n] : n \in {0, 1}}

List(a, b) == [t |-> "list", elems |-> <<a, b>>]

NonePeriod == [t |-> "none", elems |-> <<>>]

Periods ==
    {NonePeriod}
    \cup {[t |-> ty, elems |-> <<a, b>>] : ty \in {"list", "tuple"}, a \in Elems, b \in Elems}
    \cup {[t |-> "list", elems |-> e] : e \in {<<>>, <<PyInt(0)>>, <<PyInt(0), PyInt(0), PyInt(0)>>}}

\* the periods of two integer offsets, and a few of the others
OffsetPeriods == {List(PyInt(a), PyInt(b)) : a \in Offsets, b \in Offsets}

SomePeriods ==
    OffsetPeriods \cup {NonePeriod, List(PyStr(0), PyStr(0)), List(PyStr(1), PyStr(2)),
                        List(PyInt(0), PyStr(0)), List(None, None)}

IndexKinds == {"RangeIndex", "DatetimeIndex"}

Cells == {"num", "nan", "str"}

Matrices ==
    UNION {[1..c -> [1..r -> Cells]] : r \in 2..MaxRows, c \in 1..MaxCols}

Frame(t, index, cols) == [t |-> t, index |-> index, cols |-> cols]

NoneData == Frame("none", "RangeIndex", <<>>)

DataInputs ==
    {Frame(t, "RangeIndex", m) : t \in {"DataFrame", "array"}, m \in Matrices}
    \cup {Frame("ragged", "RangeIndex", <<>>), NoneData}

\* a frame of numbers with one covariate, under either kind of index
NumFrame(index) ==
    Frame("DataFrame", index, [c \in 1..2 |-> [r \in 1..MinPoints |-> "num"]])

Attrs == {"absent", "unset", "set"}

NoModel == [t |-> "none", level |-> "absent", exog |-> "absent", data |-> "absent"]

CompleteModel == [t |-> "UCM", level |-> "set", exog |-> "set", data |-> "set"]

ModelInputs ==
    {NoModel} \cup [t : {"UCM", "other"}, level : Attrs, exog : Attrs, data : Attrs]

PyFloat(n) == [k |-> "float", v |-> n]

NaN == [k |-> "nan", v |-> 0]

AlphaInputs ==
    {None, NaN} \cup {PyFloat(n) : n \in (0 - AlphaSpan)..(100 + AlphaSpan)}
                \cup {PyInt(100 * n) : n \in -1..2}

KwargsInputs == {"absent", "none", "true", "false", "other"}

Requests ==
    [data : {NumFrame("RangeIndex"), NumFrame("DatetimeIndex"), NoneData},
     pre_period : {NonePeriod, List(PyInt(0), PyInt(0)), List(PyInt(0), PyInt(4)),
                   List(PyStr(0), PyStr(0)), List(PyStr(1), PyStr(2))},
     post_period : {NonePeriod, List(PyInt(0), PyInt(0)), List(PyInt(3), PyInt(6)),
                    List(PyInt(4), PyInt(6)), List(PyStr(1), PyStr(2))},
     model : {NoModel, CompleteModel},
     alpha : {None, PyFloat(5), PyFloat(150)},
     kwargs : {"absent", "true", "other"}]

Calls ==
    {[fn |-> "_process_alpha", args |-> <<a>>] : a \in AlphaInputs}
    \cup {[fn |-> "_process_input_model", args |-> <<m>>] : m \in ModelInputs}
    \cup {[fn |-> "_process_kwargs", args |-> <<kw>>] : kw \in KwargsInputs}
    \cup {[fn |-> "_format_input_data", args |-> <<d>>] : d \in DataInputs}
    \cup {[fn |-> "_process_period", args |-> <<p, i>>] : p \in Periods, i \in IndexKinds}
    \cup {[fn |-> "_process_pre_post_data", args |-> <<NumFrame(i), p, q>>] :
             i \in IndexKinds, p \in SomePeriods, q \in SomePeriods}
    \cup {[fn |-> "_check_input_data", args |-> <<req>>] : req \in Requests}

NoCall == [fn |-> "", args |-> <<>>]

-----------------------------------------------------------------------------
(* The object before BaseCausal.__init__ has run: no attribute is set.     *)

Unset == <<>>

NoModelYet == [by |-> "unset", m |-> NoModel]

SessionIdle ==
    /\ pc = "idle"
    /\ checked_input = Unset
    /\ pre_data = Unset
    /\ post_data = Unset
    /\ alpha = None
    /\ mu_sig = Unset
    /\ model_args = Unset
    /\ model = NoModelYet
    /\ trained_model = Unset
    /\ std_calls = <<>>
    /\ error = Unset

-----------------------------------------------------------------------------
(* SpecValidate: one call of a validation method.                          *)

InitValidate ==
    /\ ucm \in BOOLEAN
    /\ call \in Calls
    /\ result = <<>>
    /\ SessionIdle

\* the call returns or raises r
Finish(r) ==
    /\ result = <<>>
    /\ result' = <<r>>
    /\ UNCHANGED <<ucm, call>>
    /\ UNCHANGED session_vars

CallProcessAlpha ==
    /\ call.fn = "_process_alpha"
    /\ Finish(_process_alpha(call.args[1]))

CallProcessInputModel ==
    /\ call.fn = "_process_input_model"
    /\ Finish(_process_input_model(call.args[1], ucm))

CallProcessKwargs ==
    /\ call.fn = "_process_kwargs"
    /\ Finish(_process_kwargs(call.args[1]))

CallFormatInputData ==
    /\ call.fn = "_format_input_data"
    /\ Finish(_format_input_data(call.args[1]))

CallProcessPeriod ==
    /\ call.fn = "_process_period"
    /\ Finish(_process_period(call.args[1], call.args[2]))

CallProcessPrePostData ==
    /\ call.fn = "_process_pre_post_data"
    /\ Finish(_process_pre_post_data(call.args[1], call.args[2], call.args[3]))

CallCheckInputData ==
    /\ call.fn = "_check_input_data"
    /\ Finish(_check_input_data(call.args[1]))

NextValidate ==
    \/ CallProcessAlpha
    \/ CallProcessInputModel
    \/ CallProcessKwargs
    \/ CallFormatInputData
    \/ CallProcessPeriod
    \/ CallProcessPrePostData
    \/ CallCheckInputData

SpecValidate == InitValidate /\ [][NextValidate]_vars

\* the outcome of the call of fn, once it has returned or raised
Done(fn) == call.fn = fn /\ result # <<>>

Outcome == result[1]

-----------------------------------------------------------------------------
(* standardize, imported from causalimpact.misc (line 31): per-column mean *)
(* and standard deviation of its argument, and the argument rescaled with  *)
(* them.  The statistics are kept as terms over the data they were         *)
(* computed from.                                                          *)

Mean(d) == [stat |-> "mean", over |-> d]

Std(d) == [stat |-> "std", over |-> d]

Rescaled(d, mu, sig) == [data |-> d, mu |-> mu, sig |-> sig]

standardize(d) == <<Rescaled(d, Mean(d), Std(d)), <<Mean(d), Std(d)>>>>

\* the record of one call of standardize: the attribute it was given, the
\* statistics it computed and whether the model had been trained by then
StdCall(attr, d) ==
    [arg |-> attr, mu_sig |-> standardize(d)[2], trained |-> trained_model # Unset]

-----------------------------------------------------------------------------
(* _construct_default_model, lines 199-209.  pre_data[:, 0] is the array   *)
(* of column 0 and pre_data[:, 1:] the matrix of the other columns.  The   *)
(* model is the keyword arguments the constructor is called with.          *)

Column0(m) == [ndim |-> 1, cols |-> <<m[1]>>]

ColumnsFrom1(m) == [ndim |-> 2, cols |-> Tail(m)]

UnobservedComponentsModel(exog, level, endog) ==
    [t |-> "UCM", level |-> level, exog |-> exog, endog |-> endog]

_construct_default_model(data, bound) ==
    IF ~bound THEN NameErrorUCM
    ELSE Ok(UnobservedComponentsModel(Column0(data), "llevel", ColumnsFrom1(data)))

-----------------------------------------------------------------------------
(* Spec: CausalImpact.__init__ from line 150 on.  checked_input is what    *)
(* the return statement of _check_input_data (lines 251-260) hands over:   *)
(* the two slices, the model (None or a validated model), the validated    *)
(* model_args and alpha, which lines 240-260 only test against None.       *)

\* a column of observations: MinPoints numbers
Columns == {[r \in 1..MinPoints |-> r], [r \in 1..MinPoints |-> 2 * r + 1]}

\* pre_data and post_data are slices of the same matrix: the same columns
Slices ==
    UNION {[1..c -> Columns] \X [1..c -> Columns] : c \in 1..MaxCols}

SessionAlphas == {PyFloat(5), PyFloat(0), PyFloat(100), PyFloat(150), PyFloat(-10), PyInt(100)}

CheckedInputs ==
    {[data |-> [c \in 1..Len(sl[1]) |-> sl[1][c] \o sl[2][c]],
      pre_period |-> List(PyInt(0), PyInt(MinPoints)),
      post_period |-> List(PyInt(MinPoints), PyInt(2 * MinPoints)),
      pre_data |-> sl[1],
      post_data |-> sl[2],
      model |-> m,
      alpha |-> a,
      model_args |-> [standardize |-> st]] :
        sl \in Slices, m \in {NoModel, CompleteModel}, a \in SessionAlphas,
        st \in BOOLEAN}

Init ==
    /\ ucm \in BOOLEAN
    /\ call = NoCall
    /\ result = <<>>
    /\ pc = "base_init"
    /\ checked_input \in CheckedInputs
    /\ pre_data = Unset
    /\ post_data = Unset
    /\ alpha = None
    /\ mu_sig = Unset
    /\ model_args = Unset
    /\ model = NoModelYet
    /\ trained_model = Unset
    /\ std_calls = <<>>
    /\ error = Unset

\* line 150 and BaseCausal.__init__, lines 52-60
BaseCausal__init__ ==
    /\ pc = "base_init"
    /\ pre_data' = checked_input.pre_data
    /\ post_data' = checked_input.post_data
    /\ alpha' = checked_input.alpha
    /\ mu_sig' = Unset
    /\ pc' = "model_args"
    /\ UNCHANGED <<ucm, call, result, checked_input, model_args, model,
                   trained_model, std_calls, error>>

\* lines 177-185: line 182 standardizes pre_data; line 183 reads the name
\* normed_data, which nothing binds, so lines 184-185 never run
_standardize_pre_post_data ==
    /\ std_calls' = Append(std_calls, StdCall("pre_data", pre_data))
    /\ error' = <<Raise("NameError", "name 'normed_data' is not defined")>>
    /\ pc' = "raised"
    /\ UNCHANGED <<pre_data, post_data, mu_sig, model_args>>

\* line 151 and the model_args setter, lines 160-164
model_args_setter ==
    /\ pc = "model_args"
    /\ IF checked_input.model_args.standardize
       THEN _standardize_pre_post_data
       ELSE /\ model_args' = <<checked_input.model_args>>
            /\ pc' = "model"
            /\ UNCHANGED <<pre_data, post_data, mu_sig, std_calls, error>>
    /\ UNCHANGED <<ucm, call, result, checked_input, alpha, model, trained_model>>

\* line 152 and the model setter, lines 170-175
model_setter ==
    /\ pc = "model"
    /\ IF checked_input.model.t = "none"
       THEN LET built == _construct_default_model(pre_data, ucm)
            IN  IF Raised(built)
                THEN /\ error' = <<built>>
                     /\ pc' = "raised"
                     /\ UNCHANGED model
                ELSE /\ model' = [by |-> "default", m |-> built.val[1]]
                     /\ pc' = "train"
                     /\ UNCHANGED error
       ELSE /\ model' = [by |-> "user", m |-> checked_input.model]
            /\ pc' = "train"
            /\ UNCHANGED error
    /\ UNCHANGED <<ucm, call, result, checked_input, pre_data, post_data, alpha,
                   mu_sig, model_args, trained_model, std_calls>>

\* line 153: the model's own train(), of the estimation library
train ==
    /\ pc = "train"
    /\ trained_model' = <<[trained |-> model.m]>>
    /\ pc' = "infer"
    /\ UNCHANGED <<ucm, call, result, checked_input, pre_data, post_data, alpha,
                   mu_sig, model_args, model, std_calls, error>>

\* line 154 and lines 187-197
_process_posterior_inferences ==
    /\ pc = "infer"
    /\ std_calls' = std_calls \o <<StdCall("pre_data", pre_data),
                                    StdCall("post_data", post_data)>>
    /\ pc' = "done"
    /\ UNCHANGED <<ucm, call, result, checked_input, pre_data, post_data, alpha,
                   mu_sig, model_args, model, trained_model, error>>

Next ==
    \/ BaseCausal__init__
    \/ model_args_setter
    \/ model_setter
    \/ train
    \/ _process_posterior_inferences

Spec == Init /\ [][Next]_vars

-----------------------------------------------------------------------------
(* The failure conditions of the design, as the exceptions of main.py.     *)

PeriodOverlap(r) ==
    r.exc = "ValueError" /\ r.msg = "Values in training data cannot be present in the post-intervention data. Please fix your pre_period value to cover at most one point less from when the intervention happened."

PeriodTooShort(r) ==
    r.exc = "ValueError" /\ r.msg = "'pre_period' must span at least 3 time points"

InvalidAlpha(r) ==
    /\ r.exc = "ValueError"
    /\ r.msg \in {"'alpha' must be of type 'float'.",
                  "'alpha' must range between 0 (zero) and 1 (one) inclusive."}

AllMissingCovariate(r) ==
    r.exc = "ValueError" /\ r.msg = "Input data cannot have NAN values"

\* the capability a message of _process_input_model names
NamedCapability(msg) ==
    CASE msg \in {"Model must have attribute level",
                  "Model must have 'level' attribute set."} -> "level"
      [] msg \in {"Model must have attribute exog",
                  "Model must have 'exog' attribute set."} -> "exog"
      [] msg \in {"Model must have attribute data",
                  "Model must have 'data' attribute set."} -> "data"
      [] OTHER -> "none"

\* the checks of _process_period that come before and with the kind check
KindCheckMessages ==
    {"Input 'period' must be of type 'list'.",
     "'period' must have two values regarding the beginning and end of the pre and post intervention data",
     "Input period cannot have 'None' values",
     "Input must contain either 'int' or 'str'"}

\* a list of two integer offsets
IsOffsetPair(p) ==
    p.t = "list" /\ Len(p.elems) = 2 /\ p.elems[1].k = "int" /\ p.elems[2].k = "int"

\* a period the resolver of the design accepts: two offsets, end - start >= 3
Resolves(p) == IsOffsetPair(p) /\ p.elems[2].v - p.elems[1].v >= MinSpan

-----------------------------------------------------------------------------
(* Claims.                                                                 *)

\* C1: no leakage.  For every request whose two periods resolve (two
\* offsets spanning at least 3), _process_pre_post_data fails with
\* PeriodOverlap when the pre-period end is greater than the post-period
\* start, and whatever it returns has pre.end <= post.start.
C1_NoLeakage ==
    Done("_process_pre_post_data") =>
        LET pre == call.args[2]
            post == call.args[3]
        IN  (Resolves(pre) /\ Resolves(post)) =>
                /\ pre.elems[2].v > post.elems[1].v => PeriodOverlap(Outcome)
                /\ ~Raised(Outcome) => pre.elems[2].v <= post.elems[1].v

\* Every call of _check_input_data raises: its call of
\* _process_pre_post_data does, whatever the periods.  The statements of
\* __init__ after line 149 are therefore studied from the dictionary that
\* lines 251-260 would return (Spec), not from a request.
CheckInputDataRaises ==
    Done("_check_input_data") => Raised(Outcome)

C3_MinimumSpan ==
    (Done("_process_period") /\ IsOffsetPair(call.args[1])) =>
        LET p == call.args[1]
        IN  IF p.elems[2].v - p.elems[1].v < MinSpan
            THEN PeriodTooShort(Outcome)
            ELSE Outcome = Ok(p)

\* C4 as stated: _process_alpha accepts alpha only strictly inside (0, 1).
C4_AlphaOpenInterval ==
    (Done("_process_alpha") /\ ~Raised(Outcome)) =>
        LET a == call.args[1]
        IN  a.k = "float" /\ 0 < a.v /\ a.v < 100

\* C4, amended: _process_alpha fails with InvalidAlpha exactly when alpha
\* is not a float, or alpha < 0, or alpha > 1.  The floats 0.0 and 1.0 are
\* accepted, as is 0.05; -0.1 and 1.5 fail, and so do the ints 0 and 1.
C4_AlphaClosedInterval ==
    Done("_process_alpha") =>
        LET a == call.args[1]
            accepted == \/ a.k = "float" /\ 0 <= a.v /\ a.v <= 100
                        \/ a.k = "nan"
        IN  /\ accepted => Outcome = Ok(None)
            /\ ~accepted => InvalidAlpha(Outcome)

\* C4's case: an end of the interval, 0.0 or 1.0, has been accepted
C4_Witness ==
    /\ Done("_process_alpha")
    /\ call.args[1] \in {PyFloat(0), PyFloat(100)}
    /\ ~Raised(Outcome)

C6_PeriodHomogeneity ==
    (/\ Done("_process_period")
     /\ call.args[1].t = "list"
     /\ Len(call.args[1].elems) = 2
     /\ ~(Outcome.exc = "ValueError" /\ Outcome.msg \in KindCheckMessages)) =>
        LET p == call.args[1].elems
        IN  p[1].k = p[2].k /\ p[1].k \in {"int", "str"}

\* C7: with covariates present, _format_input_data fails with
\* AllMissingCovariate for every matrix of numbers, of at least 3 rows,
\* that has a covariate column whose values are all missing.
C7_AllMissingCovariate ==
    Done("_format_input_data") =>
        LET d == call.args[1]
        IN  (/\ d.t \in {"DataFrame", "array"}
             /\ AllReal(d)
             /\ NRows(d) >= MinPoints
             /\ \E c \in 2..NCols(d) : \A r \in 1..NRows(d) : d.cols[c][r] = "nan")
            => AllMissingCovariate(Outcome)

\* C8: for a model that lacks exactly one of level, exog and data,
\* _process_input_model fails with a ValueError that names the capability
\* that is absent.
C8_IncompleteModelNamesCapability ==
    (Done("_process_input_model") /\ ucm /\ call.args[1].t = "UCM") =>
        LET m == call.args[1]
            lacking == {c \in {"level", "exog", "data"} : m[c] # "set"}
        IN  \A c \in lacking :
                lacking = {c} =>
                    /\ Outcome.exc = "ValueError"
                    /\ NamedCapability(Outcome.msg) = c

-----------------------------------------------------------------------------
(* The two period-order checks of _process_pre_post_data, lines 416-419.   *)

InvalidPostPeriod(r) ==
    r.exc = "ValueError" /\ r.msg = "'post_period' last number must be bigger than its first."

InvalidPrePeriod(r) ==
    r.exc = "ValueError" /\ r.msg = "'pre_period' last number must be bigger than its first"

\* a list of two integer offsets whose end comes before its start
IsReversed(p) == IsOffsetPair(p) /\ p.elems[2].v < p.elems[1].v

\* The part of C11 that does not depend on how a reversed period is
\* reported: no call of _process_pre_post_data ends with the error of line
\* 417 or of line 419, and whatever _process_period returns spans at least
\* MinSpan offsets.
InvalidPeriodChecksNeverFire ==
    /\ Done("_process_pre_post_data") =>
           ~InvalidPostPeriod(Outcome) /\ ~InvalidPrePeriod(Outcome)
    /\ (Done("_process_period") /\ ~Raised(Outcome)) =>
           LET p == Outcome.val[1].elems
           IN  p[2].v - p[1].v >= MinSpan

\* C11: the InvalidPostPeriod and InvalidPrePeriod checks of
\* _process_pre_post_data never fire: a reversed period of two offsets,
\* such as [50, 10], is reported as too short by _process_period, never as
\* an invalid pre- or post-period.
C11_ReversedPeriodTooShort ==
    /\ Done("_process_pre_post_data") =>
           /\ ~InvalidPostPeriod(Outcome)
           /\ ~InvalidPrePeriod(Outcome)
           /\ IsReversed(call.args[2]) => PeriodTooShort(Outcome)
    /\ (Done("_process_period") /\ IsReversed(call.args[1])) =>
           PeriodTooShort(Outcome)

====
